---- MODULE Spec2Model ----
(***************************************************************************)
(* The Obelisk review slider (src/script.js): a circular index over the    *)
(* slides of a track, moved by the next/prev buttons, the arrow keys and   *)
(* horizontal swipes, and rendered as a translateX offset of the track.    *)
(***************************************************************************)
EXTENDS Integers, Sequences, FiniteSets, TLC

\* ------------------------------------------------------------------ bounds
\* Largest number of slides in the track (slides.length ranges over 1..MaxSlides).
MaxSlides == 4
\* Largest number of touch points that can be on the container at once.
MaxTouches == 2
\* Largest number of navigation calls the navigation log keeps.
MaxLog == 5

\* Screen X coordinates a touch can report.  The differences cover 0, 1, 19,
\* 20, 50 (the threshold), 51 and 70, in both directions.
ScreenXs == {30, 80, 81, 100}
\* Values of KeyboardEvent.key the document can receive.
Keys == {"ArrowRight", "ArrowLeft", "Enter"}
\* Identifiers of the touch points.
TouchIds == 1..MaxTouches

\* ------------------------------------------------------------------ state
VARIABLES
    slidesLength,   \* slides.length, fixed when the DOM content is loaded
    currentIndex,   \* let currentIndex
    transform,      \* track.style.transform
    touchStartX,    \* let touchStartX
    touchEndX,      \* let touchEndX
    touches,        \* the touch points now on the container: id -> X where it started
    event,          \* the event dispatched last, with the navigation calls it made
    navLog,         \* the latest navigation calls, oldest first
    logCap          \* how many navigation calls navLog keeps

vars == <<slidesLength, currentIndex, transform, touchStartX, touchEndX,
          touches, event, navLog, logCap>>

\* No touch point with this identifier is on the container.
NoTouch == -1

\* ------------------------------------------------------------------ helpers
\* JavaScript's remainder operator: the result takes the sign of the dividend.
JsRem(a, b) == IF a >= 0 THEN a % b ELSE -((-a) % b)

\* Math.abs
Abs(x) == IF x < 0 THEN -x ELSE x

\* The value of style.transform before any script has written it.
NoTransform == [fn |-> "", pct |-> 0]

\* The template literal `translateX(-${k}%)`, kept as the function and its
\* percentage argument.
TranslateX(k) == [fn |-> "translateX", pct |-> 0 - k]

\* The script's variables as one value, threaded through the handlers.  The
\* field calls lists the navigation functions the running handler has called,
\* each with the index it was called at.
State == [currentIndex |-> currentIndex, transform |-> transform,
          touchStartX |-> touchStartX, touchEndX |-> touchEndX,
          calls |-> <<>>]

\* ------------------------------------------------------------------ script
minSwipeDistance == 50

\* A call of a navigation function, as recorded in calls.
Call(f, s) == [fn |-> f, from |-> s.currentIndex]

updateSlider(s) == [s EXCEPT !.transform = TranslateX(s.currentIndex * 100)]

\* nextSlide that stops at the last slide instead of wrapping.
nextSlide_Clamp(s) ==
    updateSlider([s EXCEPT !.currentIndex =
                               IF s.currentIndex + 1 < slidesLength
                               THEN s.currentIndex + 1 ELSE s.currentIndex,
                           !.calls = Append(s.calls, Call("next", s))])

\* nextSlide without the remainder.
nextSlide_NoRem(s) ==
    updateSlider([s EXCEPT !.currentIndex = s.currentIndex + 1,
                           !.calls = Append(s.calls, Call("next", s))])

\* nextSlide that forgets to call updateSlider.
nextSlide_NoRender(s) ==
    [s EXCEPT !.currentIndex = JsRem(s.currentIndex + 1, slidesLength),
              !.calls = Append(s.calls, Call("next", s))]

nextSlide(s) ==
    updateSlider([s EXCEPT !.currentIndex = JsRem(s.currentIndex + 1, slidesLength),
                           !.calls = Append(s.calls, Call("next", s))])

\* prevSlide without adding slides.length before the remainder.
prevSlide_NoAdd(s) ==
    updateSlider([s EXCEPT !.currentIndex = JsRem(s.currentIndex - 1, slidesLength),
                           !.calls = Append(s.calls, Call("prev", s))])

\* prevSlide that stops at the first slide instead of wrapping.
prevSlide_Clamp(s) ==
    updateSlider([s EXCEPT !.currentIndex =
                               IF s.currentIndex > 0 THEN s.currentIndex - 1 ELSE 0,
                           !.calls = Append(s.calls, Call("prev", s))])

prevSlide(s) ==
    updateSlider([s EXCEPT !.currentIndex =
                               JsRem(s.currentIndex - 1 + slidesLength, slidesLength),
                           !.calls = Append(s.calls, Call("prev", s))])

\* nextBtn.addEventListener('click', nextSlide)
onNextClick(s) == nextSlide(s)

\* prevBtn.addEventListener('click', prevSlide)
onPrevClick(s) == prevSlide(s)

\* The keydown listener with the two arrow keys exchanged.
onKeydown_Swapped(s, e) ==
    LET s1 == IF e.key = "ArrowLeft" THEN nextSlide(s) ELSE s
    IN  IF e.key = "ArrowRight" THEN prevSlide(s1) ELSE s1

\* The keydown listener going back on every key that is not ArrowRight.
onKeydown_ElseBack(s, e) ==
    IF e.key = "ArrowRight" THEN nextSlide(s) ELSE prevSlide(s)

\* document.addEventListener('keydown', ...): two successive if statements.
onKeydown(s, e) ==
    LET s1 == IF e.key = "ArrowRight" THEN nextSlide(s) ELSE s
    IN  IF e.key = "ArrowLeft" THEN prevSlide(s1) ELSE s1

\* handleSwipe that accepts a distance equal to the threshold.
handleSwipe_AtLeast(s) ==
    LET distance == s.touchStartX - s.touchEndX
    IN  IF Abs(distance) >= minSwipeDistance
        THEN IF distance > 0 THEN nextSlide(s) ELSE prevSlide(s)
        ELSE s

\* handleSwipe with the two directions exchanged.
handleSwipe_Reversed(s) ==
    LET distance == s.touchStartX - s.touchEndX
    IN  IF Abs(distance) > minSwipeDistance
        THEN IF distance > 0 THEN prevSlide(s) ELSE nextSlide(s)
        ELSE s

\* handleSwipe that navigates twice on a swipe.
handleSwipe_Twice(s) ==
    LET distance == s.touchStartX - s.touchEndX
    IN  IF Abs(distance) > minSwipeDistance
        THEN IF distance > 0 THEN nextSlide(nextSlide(s)) ELSE prevSlide(prevSlide(s))
        ELSE s

handleSwipe(s) ==
    LET distance == s.touchStartX - s.touchEndX
    IN  IF Abs(distance) > minSwipeDistance
        THEN IF distance > 0 THEN nextSlide(s) ELSE prevSlide(s)
        ELSE s

\* The touchstart listener that also runs the swipe decision.
onTouchStart_Swipe(s, e) ==
    handleSwipe([s EXCEPT !.touchStartX = e.changedTouches[1].screenX])

\* sliderContainer.addEventListener('touchstart', ...)
onTouchStart(s, e) == [s EXCEPT !.touchStartX = e.changedTouches[1].screenX]

\* sliderContainer.addEventListener('touchend', ...)
onTouchEnd(s, e) == handleSwipe([s EXCEPT !.touchEndX = e.changedTouches[1].screenX])

\* ------------------------------------------------------------------ events
KeyEvent(k) == [type |-> "keydown", key |-> k, changedTouches |-> <<>>]
ClickEvent(button) == [type |-> "click", key |-> button, changedTouches |-> <<>>]
TouchEvent(t, id, x) ==
    [type |-> t, key |-> "", changedTouches |-> <<[identifier |-> id, screenX |-> x]>>]

\* The navigation log after a handler that ended in s: the last logCap calls.
Logged(log, s) ==
    LET all == log \o s.calls
    IN  IF Len(all) <= logCap THEN all
        ELSE SubSeq(all, Len(all) - logCap + 1, Len(all))

\* One dispatched event: the handler took the script from State to s.  own is
\* the X at which the touch point of a touch event started (NoTouch otherwise).
Dispatch(e, own, s) ==
    /\ currentIndex' = s.currentIndex
    /\ transform' = s.transform
    /\ touchStartX' = s.touchStartX
    /\ touchEndX' = s.touchEndX
    /\ event' = [type |-> e.type, key |-> e.key, changedTouches |-> e.changedTouches,
                 own |-> own, calls |-> s.calls]
    /\ navLog' = Logged(navLog, s)
    /\ UNCHANGED <<slidesLength, logCap>>

Loaded ==
    /\ slidesLength \in 1..MaxSlides
    /\ currentIndex = 0
    /\ transform = NoTransform
    /\ touchStartX = 0
    /\ touchEndX = 0
    /\ touches = [id \in TouchIds |-> NoTouch]
    /\ event = [type |-> "DOMContentLoaded", key |-> "", changedTouches |-> <<>>,
                own |-> NoTouch, calls |-> <<>>]
    /\ navLog = <<>>

\* Every input source, no navigation log.
Init ==
    /\ Loaded
    /\ logCap = 0

\* Buttons and keyboard only, with the navigation log.
InitNav ==
    /\ Loaded
    /\ logCap = MaxLog

NextClick ==
    /\ Dispatch(ClickEvent("nextBtn"), NoTouch, onNextClick(State))
    /\ UNCHANGED touches

PrevClick ==
    /\ Dispatch(ClickEvent("prevBtn"), NoTouch, onPrevClick(State))
    /\ UNCHANGED touches

Keydown ==
    \E k \in Keys :
        /\ Dispatch(KeyEvent(k), NoTouch, onKeydown(State, KeyEvent(k)))
        /\ UNCHANGED touches

\* A finger comes down on the container.
TouchStart ==
    \E id \in TouchIds, x \in ScreenXs :
        /\ touches[id] = NoTouch
        /\ touches' = [touches EXCEPT ![id] = x]
        /\ Dispatch(TouchEvent("touchstart", id, x), x,
                    onTouchStart(State, TouchEvent("touchstart", id, x)))

\* A finger that is on the container is lifted.
TouchEnd ==
    \E id \in TouchIds, x \in ScreenXs :
        /\ touches[id] # NoTouch
        /\ touches' = [touches EXCEPT ![id] = NoTouch]
        /\ Dispatch(TouchEvent("touchend", id, x), touches[id],
                    onTouchEnd(State, TouchEvent("touchend", id, x)))

\* The browser cancels a touch: the script registers no touchcancel listener.
TouchCancel ==
    \E id \in TouchIds :
        /\ touches[id] # NoTouch
        /\ touches' = [touches EXCEPT ![id] = NoTouch]
        /\ Dispatch(TouchEvent("touchcancel", id, touches[id]), touches[id], State)

Next ==
    \/ NextClick
    \/ PrevClick
    \/ Keydown
    \/ TouchStart
    \/ TouchEnd
    \/ TouchCancel

Spec == Init /\ [][Next]_vars

NextNav ==
    \/ NextClick
    \/ PrevClick
    \/ Keydown

SpecNav == InitNav /\ [][NextNav]_vars

\* ------------------------------------------------------------------ claims
\* The index reached by the k-th call of a log: the index the next call started
\* from, or the current index after the last call.
After(log, k) == IF k < Len(log) THEN log[k + 1].from ELSE currentIndex

\* C1: in every reachable state currentIndex is an integer with
\* 0 <= currentIndex <= slides.length - 1, whatever events were dispatched.
C1_IndexInRange == currentIndex \in 0..(slidesLength - 1)

\* C1 witness: prevSlide was called at index 0 of a track of three slides.
C1_Witness ==
    /\ slidesLength = 3
    /\ Len(event.calls) = 1
    /\ event.calls[1] = [fn |-> "prev", from |-> 0]
    /\ event.type = "touchend"

\* C2: a next() directly followed by a prev(), and a prev() directly followed
\* by a next(), leave currentIndex at the index the first call started from.
C2_NextPrevRoundTrip ==
    \A k \in 1..(Len(navLog) - 1) :
        navLog[k].fn # navLog[k + 1].fn => After(navLog, k + 1) = navLog[k].from

\* C2 witness: next() at the last slide (wrapping to 0), then prev().
C2_Witness ==
    /\ slidesLength = 3
    /\ Len(navLog) >= 2
    /\ navLog[Len(navLog) - 1] = [fn |-> "next", from |-> 2]
    /\ navLog[Len(navLog)].fn = "prev"
    /\ currentIndex = 2

\* C3: next() moves the index from i to i + 1 when i < N - 1 and from N - 1 to
\* 0; with N = 3 three next() calls from index 0 give 1, 2, 0; and with
\* N >= 2 a next() from index 0 gives 1.
C3_NextStep ==
    /\ \A k \in 1..Len(navLog) :
          navLog[k].fn = "next" =>
              After(navLog, k) = IF navLog[k].from < slidesLength - 1
                                 THEN navLog[k].from + 1 ELSE 0
    /\ ( /\ slidesLength = 3
         /\ Len(navLog) = 3
         /\ navLog[1].from = 0
         /\ \A k \in 1..3 : navLog[k].fn = "next" )
       => <<After(navLog, 1), After(navLog, 2), After(navLog, 3)>> = <<1, 2, 0>>
    /\ ( /\ slidesLength >= 2
         /\ Len(navLog) >= 1
         /\ navLog[Len(navLog)] = [fn |-> "next", from |-> 0] )
       => currentIndex = 1

\* C3 witness: three next() calls from index 0 on a track of three slides.
C3_Witness ==
    /\ slidesLength = 3
    /\ navLog = <<[fn |-> "next", from |-> 0], [fn |-> "next", from |-> 1],
                  [fn |-> "next", from |-> 2]>>
    /\ currentIndex = 0

\* C4: prev() moves the index from i to i - 1 when i > 0 and from 0 to N - 1,
\* and never produces a negative index.
C4_PrevStep ==
    \A k \in 1..Len(event.calls) :
        event.calls[k].fn = "prev" =>
            LET after == IF k < Len(event.calls) THEN event.calls[k + 1].from
                         ELSE currentIndex
            IN  /\ after = IF event.calls[k].from > 0
                           THEN event.calls[k].from - 1 ELSE slidesLength - 1
                /\ after >= 0

\* C4 witness: the prev button was clicked at index 0 of a track of two slides.
C4_Witness ==
    /\ slidesLength = 2
    /\ event.type = "click"
    /\ event.calls = <<[fn |-> "prev", from |-> 0]>>
    /\ currentIndex = 1

\* The X coordinate a touch event reports.
ScreenX(e) == e.changedTouches[1].screenX

\* The navigation functions an event called, by name.
Called(e) == [k \in 1..Len(e.calls) |-> e.calls[k].fn]

\* The navigation a gesture from X = sx to X = ex asks for.
Asked(sx, ex) ==
    IF sx - ex > 50 THEN <<"next">>
    ELSE IF ex - sx > 50 THEN <<"prev">>
    ELSE <<>>

\* C5: a touch-end whose distance = touchStartX - endX has |distance| = 50
\* navigates nowhere (currentIndex and the rendered offset are unchanged), one
\* with |distance| = 51 navigates exactly once, and a touch-end navigates if
\* and only if |distance| > 50.
C5_SwipeThreshold ==
    [][event'.type = "touchend" =>
        LET distance == touchStartX - ScreenX(event')
        IN  /\ Abs(distance) = 50 =>
                  /\ event'.calls = <<>>
                  /\ UNCHANGED <<currentIndex, transform>>
            /\ Abs(distance) = 51 => Len(event'.calls) = 1
            /\ (event'.calls # <<>>) <=> (Abs(distance) > 50)]_vars

\* C5 witness: a touch-end exactly 50 away from the recorded start, at a slide
\* other than the first, that called no navigation.
C5_Witness ==
    /\ event.type = "touchend"
    /\ Abs(touchStartX - touchEndX) = 50
    /\ event.calls = <<>>
    /\ currentIndex = 1

\* A touch-start of a touch point directly followed by its touch-end.
Gesture ==
    /\ event.type = "touchstart"
    /\ event'.type = "touchend"
    /\ event'.changedTouches[1].identifier = event.changedTouches[1].identifier

\* The general part of C6: a gesture from s to e with |s - e| > 50 moves the
\* index to (currentIndex + 1) mod N when s - e > 0, and to
\* (currentIndex - 1 + N) mod N when s - e < 0.
SwipeMoves ==
    LET s == ScreenX(event)
        e == ScreenX(event')
    IN  /\ (Abs(s - e) > 50 /\ s - e > 0) =>
              currentIndex' = (currentIndex + 1) % slidesLength
        /\ (Abs(s - e) > 50 /\ s - e < 0) =>
              currentIndex' = (currentIndex - 1 + slidesLength) % slidesLength

\* The gesture of the example of C6: from the initial state, start 100, end 30.
ExampleGesture ==
    /\ currentIndex = 0
    /\ transform = NoTransform
    /\ ScreenX(event) = 100
    /\ ScreenX(event') = 30

C7_ArrowKeysAsButtons ==
    [][event'.type = "keydown" =>
        /\ event'.key = "ArrowRight" =>
              /\ currentIndex' = onNextClick(State).currentIndex
              /\ transform' = onNextClick(State).transform
        /\ event'.key = "ArrowLeft" =>
              /\ currentIndex' = onPrevClick(State).currentIndex
              /\ transform' = onPrevClick(State).transform]_vars

\* C7 witness: ArrowLeft pressed at the first of three slides.
C7_Witness ==
    /\ slidesLength = 3
    /\ event.type = "keydown"
    /\ event.key = "ArrowLeft"
    /\ event.calls = <<[fn |-> "prev", from |-> 0]>>
    /\ currentIndex = 2

\* C8: a keydown of a key other than ArrowRight and ArrowLeft leaves
\* currentIndex, the rendered offset and the touch sample unchanged.
C8_OtherKeysIgnored ==
    [][(event'.type = "keydown" /\ event'.key \notin {"ArrowRight", "ArrowLeft"}) =>
        UNCHANGED <<currentIndex, transform, touchStartX, touchEndX>>]_vars

\* C8 witness: Enter pressed at the second slide while a touch is in progress.
C8_Witness ==
    /\ event.type = "keydown"
    /\ event.key = "Enter"
    /\ event.calls = <<>>
    /\ currentIndex = 1
    /\ touchStartX = 80

\* The track is rendered at -currentIndex * 100 percent.
InSync == transform.fn = "translateX" /\ transform.pct = 0 - (currentIndex * 100)

\* C9: an event that calls next() or prev(), or changes currentIndex, leaves
\* the track rendered at -currentIndex * 100 percent, and once the track is
\* rendered so, every later state has it rendered so.
C9_RenderedWithIndex ==
    [][(event'.calls # <<>> \/ currentIndex' # currentIndex \/ InSync) => InSync']_vars

\* C9 witness: a swipe back from the first of three slides, rendered at -200%.
C9_Witness ==
    /\ event.type = "touchend"
    /\ event.calls = <<[fn |-> "prev", from |-> 0]>>
    /\ currentIndex = 2
    /\ transform = [fn |-> "translateX", pct |-> -200]

\* C10: the navigation a touch-end decides depends only on the X at which its
\* own touch point started and on the X of the touch-end.
C10_OwnGestureDecides ==
    event.type = "touchend" => Called(event) = Asked(event.own, ScreenX(event))

\* C11: with a single slide, every state has currentIndex = 0 and an offset of
\* 0 percent, every navigation (click, arrow key, swipe over the threshold)
\* renders translateX at 0 percent, and the state is always well formed.
C11_SingleSlideStable ==
    slidesLength = 1 =>
        /\ currentIndex = 0
        /\ transform.pct = 0
        /\ transform.fn \in {"", "translateX"}
        /\ event.calls # <<>> => transform = [fn |-> "translateX", pct |-> 0]
        /\ \A k \in 1..Len(event.calls) : event.calls[k].from = 0

\* C11 witness: a swipe over the threshold on a track of one slide.
C11_Witness ==
    /\ slidesLength = 1
    /\ event.type = "touchend"
    /\ event.calls = <<[fn |-> "prev", from |-> 0]>>
    /\ currentIndex = 0

\* C12: a touch-start records its X in touchStartX, calls no navigation and
\* leaves currentIndex, the rendered offset and touchEndX unchanged; a touch
\* that is then cancelled changes nothing of the script's state.
C12_TouchStartOnlyRecords ==
    [][/\ event'.type = "touchstart" =>
            /\ touchStartX' = ScreenX(event')
            /\ event'.calls = <<>>
            /\ UNCHANGED <<currentIndex, transform, touchEndX>>
       /\ event'.type = "touchcancel" =>
            /\ event'.calls = <<>>
            /\ UNCHANGED <<currentIndex, transform, touchStartX, touchEndX>>]_vars

\* C12 witness: a touch-start 70 away from the X of the last touch-end, at the
\* second slide.
C12_Witness ==
    /\ event.type = "touchstart"
    /\ touchStartX = 100
    /\ touchEndX = 30
    /\ currentIndex = 1

\* C13: one event calls at most one navigation function, and the index after
\* it is the old index, (old + 1) mod N or (old - 1 + N) mod N.
C13_AtMostOneNavigation ==
    [][/\ Len(event'.calls) <= 1
       /\ currentIndex' \in {currentIndex,
                             (currentIndex + 1) % slidesLength,
                             (currentIndex - 1 + slidesLength) % slidesLength}]_vars

\* C13 witness: a swipe forward from the second of four slides, where the
\* slide two further on is not a neighbour.
C13_Witness ==
    /\ slidesLength = 4
    /\ event.type = "touchend"
    /\ event.calls = <<[fn |-> "next", from |-> 1]>>
    /\ currentIndex = 2

\* The number of calls of f among the first k calls of a log.
Count(log, f, k) == Cardinality({j \in 1..k : log[j].fn = f})

\* C14: after a sequence of navigation calls that starts at index 0 and holds
\* a next() calls and b prev() calls, in any order, currentIndex is
\* (a - b) mod N taken in 0..N-1; and next() and prev() commute.
C14_NetDisplacement ==
    /\ (navLog # <<>> /\ navLog[1].from = 0) =>
          \A k \in 1..Len(navLog) :
              After(navLog, k) =
                  (Count(navLog, "next", k) - Count(navLog, "prev", k)) % slidesLength
    /\ nextSlide(prevSlide(State)).currentIndex = prevSlide(nextSlide(State)).currentIndex

\* C14 witness: from index 0 of three slides, prev, next, prev, prev, prev:
\* a = 1 and b = 4 give (1 - 4) mod 3 = 0.
C14_Witness ==
    /\ slidesLength = 3
    /\ Len(navLog) = 5
    /\ navLog[1] = [fn |-> "prev", from |-> 0]
    /\ navLog[2].fn = "next"
    /\ Count(navLog, "next", 5) = 1
    /\ Count(navLog, "prev", 5) = 4
    /\ currentIndex = 0

\* The calls k .. k + N - 1 of the log are N successive calls of f.
Run(k, f) ==
    /\ k + slidesLength - 1 <= Len(navLog)
    /\ \A j \in k..(k + slidesLength - 1) : navLog[j].fn = f

\* The indices the N calls from the k-th on were made at.
Visited(k) == {navLog[j].from : j \in k..(k + slidesLength - 1)}

\* C15: N successive next() calls, and N successive prev() calls, come back to
\* the index they started from and are made at every index of 0..N-1 exactly
\* once (N calls at N different indices).
C15_FullCycle ==
    \A k \in 1..Len(navLog) : \A f \in {"next", "prev"} :
        Run(k, f) =>
            /\ After(navLog, k + slidesLength - 1) = navLog[k].from
            /\ Visited(k) = 0..(slidesLength - 1)
            /\ Cardinality(Visited(k)) = slidesLength

\* C15 witness: four prev clicks from index 1 of four slides, back at index 1.
C15_Witness ==
    /\ slidesLength = 4
    /\ Len(navLog) >= 4
    /\ Run(Len(navLog) - 3, "prev")
    /\ navLog[Len(navLog) - 3].from = 1
    /\ event.type = "click"
    /\ currentIndex = 1

====
